---- MODULE Spec2Model ----
(***************************************************************************)
(* Model of the BACnet/IP client of YiuTerran/bacnet:                      *)
(*   src/types.go          ObjectID packing, Address <-> UDP conversion    *)
(*   src/bacip/client.go   listen loop, handleMessage, Close, WhoIs,       *)
(*                         ReadProperty, WriteProperty                     *)
(* The transaction registry (Transactions) and the frame codec             *)
(* (BVLC.UnmarshalBinary) are used by client.go but are not among the      *)
(* source files; they are modelled from sections 4.2 and 4.3 of spec.md.   *)
(***************************************************************************)
EXTENDS Integers, Sequences, FiniteSets, TLC

VARIABLES
    \* ---- src/types.go : inputs and results of the pure functions
    objIn, objEnc, objDec, udpIn, addrMac, udpOut,
    \* ---- src/bacip/client.go : Client
    runFlag,        \* Client.runFlag
    udpClosed,      \* Client.udp has been closed
    wg,             \* Client.wg counter
    listenPc,       \* position of the listen goroutine
    closePc,        \* position of the caller of Close
    nRecv,          \* datagrams returned by ReadFromUDP so far
    handlers,       \* the goroutines spawned by listen, one per datagram
    subF,           \* Subscriptions.f : 0 (nil) or the WhoIs call whose rChan it feeds
    rwReaders,      \* Subscriptions.RWMutex : handlers holding the read lock
    rwPending,      \* Subscriptions.RWMutex : WhoIs calls blocked in Lock()
    whois,          \* the WhoIs calls
    inUse,          \* Transactions : ids handed out by GetID and not yet freed
    transactions,   \* Transactions : id -> call whose (rChan, ctx) is registered
    calls,          \* the ReadProperty / WriteProperty calls
    ctxDone         \* the callers' contexts : TRUE once cancelled

typeVars   == <<objIn, objEnc, objDec, udpIn, addrMac, udpOut>>
clientVars == <<runFlag, udpClosed, wg, listenPc, closePc, nRecv, handlers,
                subF, rwReaders, rwPending, whois, inUse, transactions,
                calls, ctxDone>>
vars == <<typeVars, clientVars>>

(***************************************************************************)
(* src/types.go                                                            *)
(***************************************************************************)
\* TLC integers are 32-bit signed, so a uint32 is held as its two 16-bit halves
U32(h, l) == [hi |-> h, lo |-> l]
Pow2(n) == 2 ^ n
Half == Pow2(16)
Uint16(x) == x % Half
FromUint16(x) == U32(0, Uint16(x))

MaxInstance   == U32(63, 65535)    \* 0x3FFFFF
instanceBits  == 22
maxObjectType == 1024              \* 0x400

RECURSIVE BitOr(_, _, _)
\* a | b on the low n bits
BitOr(a, b, n) ==
    IF n = 0 THEN 0
    ELSE (IF (a % 2 = 1) \/ (b % 2 = 1) THEN 1 ELSE 0)
         + 2 * BitOr(a \div 2, b \div 2, n - 1)

RECURSIVE BitAnd(_, _, _)
\* a & b on the low n bits
BitAnd(a, b, n) ==
    IF n = 0 THEN 0
    ELSE (IF (a % 2 = 1) /\ (b % 2 = 1) THEN 1 ELSE 0)
         + 2 * BitAnd(a \div 2, b \div 2, n - 1)

Or32(a, b)  == U32(BitOr(a.hi, b.hi, 16), BitOr(a.lo, b.lo, 16))
And32(a, b) == U32(BitAnd(a.hi, b.hi, 16), BitAnd(a.lo, b.lo, 16))
Gt32(a, b)  == a.hi > b.hi \/ (a.hi = b.hi /\ a.lo > b.lo)

\* a << k on 32 bits: the bits shifted past bit 31 are lost
ShiftLeft32(a, k) ==
    IF k >= 16
    THEN U32((a.lo * Pow2(k - 16)) % Half, 0)
    ELSE U32((a.hi * Pow2(k) + (a.lo * Pow2(k)) \div Half) % Half, (a.lo * Pow2(k)) % Half)

\* a >> k on 32 bits
ShiftRight32(a, k) ==
    IF k >= 16
    THEN U32(0, a.hi \div Pow2(k - 16))
    ELSE U32(a.hi \div Pow2(k), ((a.hi % Pow2(k)) * Pow2(16 - k) + a.lo \div Pow2(k)) % Half)

None == [ok |-> FALSE, none |-> TRUE, v |-> 0]

\* ObjectID.Encode : (uint32, error)
Encode(o) ==
    IF Gt32(o.Instance, MaxInstance) THEN [ok |-> FALSE, none |-> FALSE, v |-> 0]
    ELSE IF o.Type > maxObjectType THEN [ok |-> FALSE, none |-> FALSE, v |-> 0]
    ELSE [ok |-> TRUE, none |-> FALSE,
          v |-> Or32(ShiftLeft32(FromUint16(o.Type), instanceBits), o.Instance)]

ObjectIDFromUint32(v) ==
    [Type     |-> Uint16(ShiftRight32(v, instanceBits).lo),
     Instance |-> And32(v, MaxInstance)]

IPv4len == 4
IPv6len == 16
v4InV6Prefix == <<0, 0, 0, 0, 0, 0, 0, 0, 0, 0, 255, 255>>

\* net.IP.To4 : the 4-byte form, or the empty IP when ip is not an IPv4 address
To4(ip) ==
    IF Len(ip) = IPv4len THEN ip
    ELSE IF Len(ip) = IPv6len /\ SubSeq(ip, 1, 12) = v4InV6Prefix
         THEN SubSeq(ip, 13, 16)
    ELSE << >>

\* net.IP.To16 : the 16-byte form
To16(ip) ==
    IF Len(ip) = IPv4len THEN v4InV6Prefix \o ip
    ELSE IF Len(ip) = IPv6len THEN ip
    ELSE << >>

\* net.IP.Equal : an IPv4 address and its IPv4-mapped form are equal
IPEqual(a, b) ==
    \/ a = b
    \/ Len(a) = IPv4len /\ Len(b) = IPv6len /\ To4(b) = a
    \/ Len(a) = IPv6len /\ Len(b) = IPv4len /\ To4(a) = b

\* AddressFromUDP : the Mac of the returned Address
AddressFromUDP(udp) ==
    LET head == IF Len(udp.IP) = IPv4len
                THEN <<4>> \o To4(udp.IP)
                ELSE <<16>> \o To16(udp.IP)
        port == Uint16(udp.Port)
    IN  head \o <<port \div 256, port % 256>>

NoUDPAddr == [IP |-> << >>, Port |-> 0]

UDPFromAddress(mac) ==
    IF Len(mac) < 2 THEN NoUDPAddr
    ELSE LET ipLen == mac[1] IN
         IF ipLen # 4 /\ ipLen # 16 THEN NoUDPAddr
         ELSE IF Len(mac) < 1 + ipLen + 2 THEN NoUDPAddr
         ELSE [IP   |-> SubSeq(mac, 2, 1 + ipLen),
               Port |-> mac[2 + ipLen] * 256 + mac[3 + ipLen]]

\* ---- inputs of the pure functions
ObjectTypes     == {0, 8, 1023, 1024, 1025, 65535}
ObjectInstances == {U32(0, 0), U32(0, 1234), U32(63, 65535), U32(64, 0), U32(65535, 65535)}
ObjectIDs == [Type : ObjectTypes, Instance : ObjectInstances]

IPv4Quads == {<<192, 0, 2, 5>>, <<10, 1, 255, 0>>, <<0, 0, 0, 0>>, <<255, 255, 255, 255>>}
IPForms   == IPv4Quads \cup {v4InV6Prefix \o q : q \in IPv4Quads}
Ports     == {0, 1, 255, 256, 47808, 65535}
UDPAddrs  == [IP : IPForms, Port : Ports]

NoObjectID == [Type |-> 0, Instance |-> U32(0, 0)]
NoMac      == << >>

TypesIdle ==
    /\ objIn = NoObjectID /\ objEnc = None /\ objDec = None
    /\ udpIn = NoUDPAddr /\ addrMac = NoMac /\ udpOut = None

EncodeObjectID ==
    /\ objEnc.none
    /\ objEnc' = Encode(objIn)
    /\ UNCHANGED <<objIn, objDec, udpIn, addrMac, udpOut, clientVars>>

DecodeObjectID ==
    /\ objEnc.ok /\ objDec.none
    /\ objDec' = [ok |-> TRUE, none |-> FALSE, v |-> ObjectIDFromUint32(objEnc.v)]
    /\ UNCHANGED <<objIn, objEnc, udpIn, addrMac, udpOut, clientVars>>

ToAddress ==
    /\ addrMac = NoMac
    /\ addrMac' = AddressFromUDP(udpIn)
    /\ UNCHANGED <<objIn, objEnc, objDec, udpIn, udpOut, clientVars>>

ToUDP ==
    /\ addrMac # NoMac /\ udpOut.none
    /\ udpOut' = [ok |-> TRUE, none |-> FALSE, v |-> UDPFromAddress(addrMac)]
    /\ UNCHANGED <<objIn, objEnc, objDec, udpIn, addrMac, clientVars>>

(***************************************************************************)
(* Frames.  A datagram is described by what its bytes carry: the first     *)
(* octet, the place where the bytes stop short of a declared length (cut), *)
(* the UDP source and the APDU.                                            *)
(***************************************************************************)
MaxDgrams == 2               \* datagrams the socket delivers in one run

Peers     == {1, 2}          \* UDP sources
Instances == {1, 2, 3}       \* device instances announced by IAm frames
NilBound  == -1              \* a nil WhoIs.Low / WhoIs.High
Limits    == {NilBound, 2}   \* values of WhoIs.Low and WhoIs.High
Calls     == {1, 2}          \* ReadProperty (odd) / WriteProperty (even) calls
WhoIsCalls == {1}            \* WhoIs calls
OverlapCalls == {1, 2}       \* WhoIs calls running on the same client at once
RoutedDevice == 9            \* MAC of a device behind a router

TypeBacnetIP == 129          \* 0x81

NilPayload == [kind |-> "nil", inst |-> 0]
IamPayload(i) == [kind |-> "Iam", inst |-> i]
NoAPDU == [DataType |-> "nil", ServiceType |-> "nil", InvokeID |-> 0,
           Payload |-> NilPayload]
IamAPDU(i) == [DataType |-> "UnconfirmedServiceRequest", ServiceType |-> "IAm",
               InvokeID |-> 0, Payload |-> IamPayload(i)]
ReplyAPDU(t, s, id, k) == [DataType |-> t, ServiceType |-> s, InvokeID |-> id,
                           Payload |-> [kind |-> k, inst |-> 0]]

\* a datagram : src is its UDP source, nsrc the NPDU.Source it carries (0 : nil)
Frame(o, c, p, a) == [octet0 |-> o, cut |-> c, src |-> p, nsrc |-> 0, apdu |-> a]
Routed(b, n) == [b EXCEPT !.nsrc = n]
NoFrame == Frame(TypeBacnetIP, "none", 0, NoAPDU)
EmptyFrame == Frame(0, "bvlc", 0, NoAPDU)      \* b[:0] after a failed read

IamFrames   == {Frame(TypeBacnetIP, "none", p, IamAPDU(i)) : p \in Peers, i \in Instances}
OtherFrames == {Frame(TypeBacnetIP, "none", 1, NoAPDU)}        \* network layer message

\* what the peers send in each specification
ReplyWire == {Frame(TypeBacnetIP, "none", 1, a) :
                a \in {ReplyAPDU("ComplexAck", "ReadProperty", 0, "ReadProperty"),
                       ReplyAPDU("SimpleAck", "WriteProperty", 1, "nil"),
                       ReplyAPDU("Error", "ReadProperty", 1, "ApduError")}}
AckWire   == {Frame(TypeBacnetIP, "none", 1,
                    ReplyAPDU("ComplexAck", "ReadProperty", 0, "ReadProperty"))}
IamWire   == IamFrames \cup
             {Frame(0, "none", 1, IamAPDU(1)),
              Frame(TypeBacnetIP, "npdu", 1, IamAPDU(1)),
              Frame(TypeBacnetIP, "apdu", 1, IamAPDU(1)),
              Routed(Frame(TypeBacnetIP, "none", 1, IamAPDU(3)), RoutedDevice)}
             \cup OtherFrames
MixedWire == {Frame(TypeBacnetIP, "none", 1, IamAPDU(1)),
              Frame(TypeBacnetIP, "none", 1,
                    ReplyAPDU("ComplexAck", "ReadProperty", 0, "ReadProperty")),
              Frame(0, "none", 1, IamAPDU(1)),
              Frame(TypeBacnetIP, "apdu", 1, IamAPDU(1))}

\* BVLC.UnmarshalBinary (spec.md 4.2): the error, and the APDU left in bvlc.NPDU.ADPU.
\* A frame cut inside its payload leaves the decoded APDU header without payload.
UnmarshalBinary(b) ==
    IF b.octet0 # TypeBacnetIP THEN [err |-> "ErrNotBAcnetIP", apdu |-> NoAPDU]
    ELSE IF b.cut \in {"bvlc", "npdu"} THEN [err |-> "truncated", apdu |-> NoAPDU]
    ELSE IF b.cut = "apdu"
         THEN [err |-> "truncated", apdu |-> [b.apdu EXCEPT !.Payload = NilPayload]]
    ELSE [err |-> "nil", apdu |-> b.apdu]

PeerUDP(p) == [IP |-> <<192, 0, 2, p>>, Port |-> 47808]

\* the bacnet.Address in NPDU.Source of a frame forwarded by a router
SourceAddr(n) == <<n>>

(***************************************************************************)
(* Go map assignment m[k] = v, a map being a set of <<key, value>> pairs.  *)
(***************************************************************************)
MapPutNoReplace(m, k, v) == m \cup {<<k, v>>}
MapPut(m, k, v) == {p \in m : p[1] # k} \cup {<<k, v>>}
MapDelete(m, k) == {p \in m : p[1] # k}
MapHas(m, k) == \E p \in m : p[1] = k
MapGet(m, k) == (CHOOSE p \in m : p[1] = k)[2]

(***************************************************************************)
(* Transactions (spec.md 4.3)                                              *)
(***************************************************************************)
MaxInvokeID == 255
FreeIDs == (0 .. MaxInvokeID) \ inUse
GetID == CHOOSE i \in FreeIDs : \A j \in FreeIDs : i <= j
FreeID(id) == inUse \ {id}
SetTransaction(id, c) == MapPut(transactions, id, c)
StopTransaction(id) == MapDelete(transactions, id)
GetTransaction(id) == IF MapHas(transactions, id)
                      THEN [ok |-> TRUE, tx |-> MapGet(transactions, id)]
                      ELSE [ok |-> FALSE, tx |-> 0]

(***************************************************************************)
(* Client : construction                                                   *)
(***************************************************************************)
IdleHandler == [pc |-> "done", d |-> NoFrame, f |-> 0, tx |-> 0, joined |-> FALSE]
IdleWhoIs == [pc |-> "idle", low |-> -1, high |-> -1, set |-> {}, rcvd |-> {},
              nAcc |-> 0, result |-> {}, err |-> "nil"]
IdleCall == [pc |-> "idle", id |-> 0, res |-> "none"]
Kind(c) == IF c % 2 = 1 THEN "read" ELSE "write"

\* NewClient
ClientInit ==
    /\ runFlag = TRUE /\ udpClosed = FALSE /\ wg = 1
    /\ listenPc = "check" /\ closePc = "idle"
    /\ nRecv = 0 /\ handlers = << >>
    /\ subF = 0 /\ rwReaders = {} /\ rwPending = {}
    /\ whois = [w \in OverlapCalls |-> IdleWhoIs]
    /\ inUse = {} /\ transactions = {}
    /\ calls = [c \in Calls |-> IdleCall]
    /\ ctxDone = [c \in Calls |-> FALSE]

(***************************************************************************)
(* Client.listen                                                           *)
(***************************************************************************)
\* go func() { ... handleMessage ... }() : the loop does not wait for the handler
SpawnInline(d) == [pc |-> "start", d |-> d, f |-> 0, tx |-> 0, joined |-> TRUE]
Spawn(d) == [pc |-> "start", d |-> d, f |-> 0, tx |-> 0, joined |-> FALSE]

\* for c.runFlag.Load() { ... } ; defer c.wg.Done()
listenCheck ==
    /\ listenPc = "check"
    /\ \A h \in DOMAIN handlers : handlers[h].joined => handlers[h].pc = "done"
    /\ IF runFlag
       THEN listenPc' = "read" /\ wg' = wg
       ELSE listenPc' = "exited" /\ wg' = wg - 1
    /\ UNCHANGED <<runFlag, udpClosed, closePc, nRecv, handlers, subF, rwReaders,
                   rwPending, whois, inUse, transactions, calls, ctxDone, typeVars>>

\* c.udp.ReadFromUDP(b) returns: a datagram, or an error once the socket is closed
listenRead(D) ==
    /\ listenPc = "read"
    /\ nRecv < MaxDgrams
    /\ IF udpClosed
       THEN handlers' = Append(handlers, Spawn(EmptyFrame))
       ELSE \E d \in D : handlers' = Append(handlers, Spawn(d))
    /\ nRecv' = nRecv + 1
    /\ listenPc' = "check"
    /\ UNCHANGED <<runFlag, udpClosed, wg, closePc, subF, rwReaders, rwPending,
                   whois, inUse, transactions, calls, ctxDone, typeVars>>

(***************************************************************************)
(* Client.Close                                                            *)
(***************************************************************************)
\* c.runFlag.Store(false)
CloseStore ==
    /\ closePc = "idle"
    /\ runFlag' = FALSE
    /\ closePc' = "wait"
    /\ UNCHANGED <<udpClosed, wg, listenPc, nRecv, handlers, subF, rwReaders,
                   rwPending, whois, inUse, transactions, calls, ctxDone, typeVars>>

\* c.wg.Wait() ; return c.udp.Close()
CloseWait ==
    /\ closePc = "wait"
    /\ wg = 0
    /\ udpClosed' = TRUE
    /\ closePc' = "returned"
    /\ UNCHANGED <<runFlag, wg, listenPc, nRecv, handlers, subF, rwReaders,
                   rwPending, whois, inUse, transactions, calls, ctxDone, typeVars>>

(***************************************************************************)
(* Client.handleMessage, run by handler h on its datagram                  *)
(***************************************************************************)
Done(h) == [handlers EXCEPT ![h] = IdleHandler]
Decoded(h) == UnmarshalBinary(handlers[h].d)
IsReply(apdu) == apdu.DataType \in {"ComplexAck", "SimpleAck", "Error"}

\* if err != nil && errors.Is(err, ErrNotBAcnetIP) { return err }
Drops(r) == r.err # "nil" /\ r.err = "ErrNotBAcnetIP"

\* bvlc.UnmarshalBinary(b) ... if apdu == nil { return nil }
handleParse(h) ==
    /\ h \in DOMAIN handlers
    /\ handlers[h].pc = "start"
    /\ handlers' = IF Drops(Decoded(h)) \/ Decoded(h).apdu = NoAPDU
                   THEN Done(h)
                   ELSE [handlers EXCEPT ![h].pc = "rlock"]
    /\ UNCHANGED <<runFlag, udpClosed, wg, listenPc, closePc, nRecv, subF, rwReaders,
                   rwPending, whois, inUse, transactions, calls, ctxDone, typeVars>>

\* c.subscriptions.RLock() ; if f != nil { f(bvlc, *src) } : with no sink installed
\* the lock is released at once, otherwise the handler enters f holding the read lock
handleRLock(h) ==
    /\ h \in DOMAIN handlers
    /\ handlers[h].pc = "rlock"
    /\ rwPending = {}
    /\ IF subF # 0
       THEN /\ handlers' = [handlers EXCEPT ![h].pc = "sink", ![h].f = subF]
            /\ rwReaders' = rwReaders \cup {h}
       ELSE /\ handlers' = [handlers EXCEPT ![h].pc = "dispatch"]
            /\ rwReaders' = rwReaders
    /\ UNCHANGED <<runFlag, udpClosed, wg, listenPc, closePc, nRecv, subF,
                   rwPending, whois, inUse, transactions, calls, ctxDone, typeVars>>

\* if apdu.DataType == ComplexAck || ... { tx, ok := GetTransaction(invokeID) ... }
handleDispatch(h) ==
    /\ h \in DOMAIN handlers
    /\ handlers[h].pc = "dispatch"
    /\ LET apdu == Decoded(h).apdu
           t    == GetTransaction(apdu.InvokeID)
       IN  handlers' = IF IsReply(apdu) /\ t.ok
                       THEN [handlers EXCEPT ![h].pc = "txsend", ![h].tx = t.tx]
                       ELSE Done(h)
    /\ UNCHANGED <<runFlag, udpClosed, wg, listenPc, closePc, nRecv, subF, rwReaders,
                   rwPending, whois, inUse, transactions, calls, ctxDone, typeVars>>

\* select { ... case <-tx.Ctx.Done(): return error }
handleCtxDone(h) ==
    /\ h \in DOMAIN handlers
    /\ handlers[h].pc = "txsend"
    /\ ctxDone[handlers[h].tx]
    /\ handlers' = Done(h)
    /\ UNCHANGED <<runFlag, udpClosed, wg, listenPc, closePc, nRecv, subF, rwReaders,
                   rwPending, whois, inUse, transactions, calls, ctxDone, typeVars>>

(***************************************************************************)
(* Client.WhoIs, call w                                                    *)
(***************************************************************************)
\* c.subscriptions.Lock() is called
WhoIsStart(w, L) ==
    /\ whois[w].pc = "idle"
    /\ \E lo \in L, hi \in L :
          whois' = [whois EXCEPT ![w].pc = "lock", ![w].low = lo, ![w].high = hi]
    /\ rwPending' = rwPending \cup {w}
    /\ UNCHANGED <<runFlag, udpClosed, wg, listenPc, closePc, nRecv, handlers, subF,
                   rwReaders, inUse, transactions, calls, ctxDone, typeVars>>

\* Lock() is granted when no reader holds the lock ; f = func... ; Unlock()
WhoIsInstall(w) ==
    /\ whois[w].pc = "lock"
    /\ rwReaders = {}
    /\ subF' = w
    /\ rwPending' = rwPending \ {w}
    /\ whois' = [whois EXCEPT ![w].pc = "broadcast"]
    /\ UNCHANGED <<runFlag, udpClosed, wg, listenPc, closePc, nRecv, handlers,
                   rwReaders, inUse, transactions, calls, ctxDone, typeVars>>

\* return of WhoIs : the deferred c.subscriptions.f = nil runs
WhoIsReturn(w, res, e) ==
    /\ whois' = [whois EXCEPT ![w].pc = "returned", ![w].result = res,
                              ![w].err = e, ![w].set = {}]
    /\ subF' = 0

\* _, err := c.broadcast(npdu) ; if err != nil { return nil, err }
WhoIsBroadcast(w) ==
    /\ whois[w].pc = "broadcast"
    /\ \E ok \in (IF udpClosed THEN {FALSE} ELSE BOOLEAN) :
          IF ok
          THEN whois' = [whois EXCEPT ![w].pc = "collect"] /\ subF' = subF
          ELSE WhoIsReturn(w, {}, "broadcast")
    /\ UNCHANGED <<runFlag, udpClosed, wg, listenPc, closePc, nRecv, handlers,
                   rwReaders, rwPending, inUse, transactions, calls, ctxDone, typeVars>>

\* the test of lines 256-258 on an IAm
InRangeLowOnly(inst, lo, hi) == inst >= lo
InRange(inst, lo, hi) == inst >= lo /\ inst <= hi
Filtered(lo, hi) == hi # NilBound /\ lo # NilBound
Keeps(inst, lo, hi) == IF Filtered(lo, hi) THEN InRange(inst, lo, hi) ELSE TRUE

\* set[*iam] = *addr
SetInsertNoDedup(s, iam, addr) == MapPutNoReplace(s, iam, addr)
SetInsert(s, iam, addr) == MapPut(s, iam, addr)

\* for iam, addr := range set { result = append(result, bacnet.Device{...}) }
Devices(s) == {[ID |-> p[1].inst, Addr |-> p[2]] : p \in s}

\* case r := <-rChan : handler h, blocked in f, hands its frame to call w
WhoIsCollect(w, h) ==
    /\ whois[w].pc = "collect"
    /\ h \in DOMAIN handlers
    /\ handlers[h].pc = "sink"
    /\ handlers[h].f = w
    /\ handlers' = [handlers EXCEPT ![h].pc = "dispatch", ![h].f = 0]
    /\ rwReaders' = rwReaders \ {h}
    /\ LET apdu == Decoded(h).apdu
           iam  == apdu.Payload
           addr == AddressFromUDP(PeerUDP(handlers[h].d.src))
       IN  IF apdu.DataType = "UnconfirmedServiceRequest" /\ apdu.ServiceType = "IAm"
           THEN IF iam.kind # "Iam"
                THEN WhoIsReturn(w, {}, "payload")
                ELSE /\ subF' = subF
                     /\ whois' = [whois EXCEPT
                          ![w].rcvd = @ \cup {[inst |-> iam.inst, src |-> handlers[h].d.src]},
                          ![w].nAcc = IF Keeps(iam.inst, whois[w].low, whois[w].high)
                                      THEN @ + 1 ELSE @,
                          ![w].set  = IF Keeps(iam.inst, whois[w].low, whois[w].high)
                                      THEN SetInsert(@, iam, addr) ELSE @]
           ELSE UNCHANGED <<whois, subF>>
    /\ UNCHANGED <<runFlag, udpClosed, wg, listenPc, closePc, nRecv,
                   rwPending, inUse, transactions, calls, ctxDone, typeVars>>

\* case <-timer.C : return result, nil
WhoIsDeadline(w) ==
    /\ whois[w].pc = "collect"
    /\ WhoIsReturn(w, Devices(whois[w].set), "nil")
    /\ UNCHANGED <<runFlag, udpClosed, wg, listenPc, closePc, nRecv, handlers,
                   rwReaders, rwPending, inUse, transactions, calls, ctxDone, typeVars>>

(***************************************************************************)
(* Client.ReadProperty / Client.WriteProperty, call c                      *)
(***************************************************************************)
\* a return statement : the deferred StopTransaction, then FreeID, run before
\* the call is back in its caller
ReturnNoDefer(c, r) == [calls EXCEPT ![c].res = r, ![c].pc = "returned"]
Return(c, r) == [calls EXCEPT ![c].res = r, ![c].pc = "stop"]

\* the cases of the select of lines 301-314 / 345-357 that wait for ctx.Done()
NeverDone(c) == FALSE
CtxIsDone(c) == ctxDone[c]

\* the reply classification of ReadProperty
ReadResultNoError(apdu) ==
    IF apdu.DataType = "ComplexAck" /\ apdu.ServiceType = "ReadProperty"
    THEN IF apdu.Payload.kind = "ReadProperty" THEN "value" ELSE "panic"
    ELSE "invalid"
ReadResult(apdu) ==
    IF apdu.DataType = "Error"
    THEN IF apdu.Payload.kind = "ApduError" THEN "error" ELSE "panic"
    ELSE IF apdu.DataType = "ComplexAck" /\ apdu.ServiceType = "ReadProperty"
         THEN IF apdu.Payload.kind = "ReadProperty" THEN "value" ELSE "panic"
    ELSE "invalid"

\* the reply classification of WriteProperty
WriteResult(apdu) ==
    IF apdu.DataType = "Error"
    THEN IF apdu.Payload.kind = "ApduError" THEN "error" ELSE "panic"
    ELSE IF apdu.DataType = "SimpleAck" THEN "ok"
    ELSE "invalid"

\* Destination: &device.Addr : the peer call c sends its request to
Dest(c) == c

\* invokeID := c.transactions.GetID()
CallGetID(c) ==
    /\ calls[c].pc = "idle"
    /\ FreeIDs # {}
    /\ calls' = [calls EXCEPT ![c].pc = "set", ![c].id = GetID]
    /\ inUse' = inUse \cup {GetID}
    /\ UNCHANGED <<runFlag, udpClosed, wg, listenPc, closePc, nRecv, handlers, subF,
                   rwReaders, rwPending, whois, transactions, ctxDone, typeVars>>

\* c.transactions.SetTransaction(invokeID, rChan, ctx)
CallSetTransaction(c) ==
    /\ calls[c].pc = "set"
    /\ transactions' = SetTransaction(calls[c].id, c)
    /\ calls' = [calls EXCEPT ![c].pc = "send"]
    /\ UNCHANGED <<runFlag, udpClosed, wg, listenPc, closePc, nRecv, handlers, subF,
                   rwReaders, rwPending, whois, inUse, ctxDone, typeVars>>

\* _, err := c.send(npdu) ; if err != nil { return nil, err }
CallSend(c) ==
    /\ calls[c].pc = "send"
    /\ \E ok \in (IF udpClosed THEN {FALSE} ELSE BOOLEAN) :
          calls' = IF ok THEN [calls EXCEPT ![c].pc = "wait"]
                         ELSE Return(c, "senderr")
    /\ UNCHANGED <<runFlag, udpClosed, wg, listenPc, closePc, nRecv, handlers, subF,
                   rwReaders, rwPending, whois, inUse, transactions, ctxDone, typeVars>>

\* case apdu := <-rChan, met by case tx.APDU <- *apdu of handler h
CallReceive(c, h) ==
    /\ calls[c].pc = "wait"
    /\ h \in DOMAIN handlers
    /\ handlers[h].pc = "txsend"
    /\ handlers[h].tx = c
    /\ calls' = Return(c, IF Kind(c) = "read"
                          THEN ReadResult(Decoded(h).apdu)
                          ELSE WriteResult(Decoded(h).apdu))
    /\ handlers' = Done(h)
    /\ UNCHANGED <<runFlag, udpClosed, wg, listenPc, closePc, nRecv, subF,
                   rwReaders, rwPending, whois, inUse, transactions, ctxDone, typeVars>>

\* case <-ctx.Done() : return ctx.Err()
CallCtxDone(c) ==
    /\ calls[c].pc = "wait"
    /\ CtxIsDone(c)
    /\ calls' = Return(c, "cancelled")
    /\ UNCHANGED <<runFlag, udpClosed, wg, listenPc, closePc, nRecv, handlers, subF,
                   rwReaders, rwPending, whois, inUse, transactions, ctxDone, typeVars>>

\* deferred c.transactions.StopTransaction(invokeID)
CallStopSkipped(c) ==
    /\ calls[c].pc = "stop"
    /\ calls' = [calls EXCEPT ![c].pc = "free"]
    /\ UNCHANGED <<runFlag, udpClosed, wg, listenPc, closePc, nRecv, handlers, subF,
                   rwReaders, rwPending, whois, inUse, transactions, ctxDone, typeVars>>
CallStopTransaction(c) ==
    /\ calls[c].pc = "stop"
    /\ transactions' = StopTransaction(calls[c].id)
    /\ calls' = [calls EXCEPT ![c].pc = "free"]
    /\ UNCHANGED <<runFlag, udpClosed, wg, listenPc, closePc, nRecv, handlers, subF,
                   rwReaders, rwPending, whois, inUse, ctxDone, typeVars>>

\* deferred c.transactions.FreeID(invokeID) ; the call is back in its caller
CallFreeID(c) ==
    /\ calls[c].pc = "free"
    /\ inUse' = FreeID(calls[c].id)
    /\ calls' = [calls EXCEPT ![c].pc = "returned"]
    /\ UNCHANGED <<runFlag, udpClosed, wg, listenPc, closePc, nRecv, handlers, subF,
                   rwReaders, rwPending, whois, transactions, ctxDone, typeVars>>

\* the owner of the context of call c cancels it
Cancel(c) ==
    /\ ~ctxDone[c]
    /\ calls[c].pc \notin {"idle", "returned"}
    /\ ctxDone' = [ctxDone EXCEPT ![c] = TRUE]
    /\ UNCHANGED <<runFlag, udpClosed, wg, listenPc, closePc, nRecv, handlers, subF,
                   rwReaders, rwPending, whois, inUse, transactions, calls, typeVars>>

(***************************************************************************)
(* Specifications                                                          *)
(***************************************************************************)
Init == ClientInit /\ TypesIdle

Handlers == 1 .. MaxDgrams

\* the whole client : one ReadProperty call, one WhoIs call, Close
Next ==
    \/ listenCheck
    \/ listenRead(MixedWire)
    \/ CloseStore
    \/ CloseWait
    \/ \E h \in Handlers : handleParse(h)
    \/ \E h \in Handlers : handleRLock(h)
    \/ \E h \in Handlers : handleDispatch(h)
    \/ \E h \in Handlers : handleCtxDone(h)
    \/ WhoIsStart(1, {NilBound})
    \/ WhoIsInstall(1)
    \/ WhoIsBroadcast(1)
    \/ WhoIsDeadline(1)
    \/ \E h \in Handlers : WhoIsCollect(1, h)
    \/ CallGetID(1)
    \/ CallSetTransaction(1)
    \/ CallSend(1)
    \/ CallCtxDone(1)
    \/ CallStopTransaction(1)
    \/ CallFreeID(1)
    \/ Cancel(1)
    \/ \E h \in Handlers : CallReceive(1, h)

Spec == Init /\ [][Next]_vars

\* Every goroutine that can take a step eventually takes one.  Nothing is assumed
\* of the peers (a datagram may never arrive), of the callers' cancellation, nor of
\* when the API is called.  A read of a closed socket returns.
ListenFair == WF_vars(listenCheck) /\ WF_vars(udpClosed /\ listenRead({EmptyFrame}))
CloseFair  == WF_vars(CloseWait)
HandleFair == \A h \in Handlers :
                 WF_vars(handleParse(h) \/ handleRLock(h) \/ handleDispatch(h)
                         \/ handleCtxDone(h))
WhoIsFair  == \A w \in WhoIsCalls :
                 WF_vars(WhoIsInstall(w) \/ WhoIsBroadcast(w) \/ WhoIsDeadline(w))
CallFair   == \A c \in Calls :
                 WF_vars(CallSetTransaction(c) \/ CallSend(c) \/ CallCtxDone(c)
                         \/ CallStopTransaction(c) \/ CallFreeID(c)
                         \/ \E h \in Handlers : CallReceive(c, h))

FairSpec == Spec /\ ListenFair /\ CloseFair /\ HandleFair /\ WhoIsFair /\ CallFair

\* request / reply : a ReadProperty and a WriteProperty call, replies on the wire
CallNext ==
    \/ listenCheck
    \/ listenRead(ReplyWire)
    \/ \E h \in Handlers : handleParse(h)
    \/ \E h \in Handlers : handleRLock(h)
    \/ \E h \in Handlers : handleDispatch(h)
    \/ \E h \in Handlers : handleCtxDone(h)
    \/ \E c \in Calls : CallGetID(c)
    \/ \E c \in Calls : CallSetTransaction(c)
    \/ \E c \in Calls : CallSend(c)
    \/ \E c \in Calls : CallCtxDone(c)
    \/ \E c \in Calls : CallStopTransaction(c)
    \/ \E c \in Calls : CallFreeID(c)
    \/ \E c \in Calls : Cancel(c)
    \/ \E c \in Calls, h \in Handlers : CallReceive(c, h)

CallSpec == Init /\ [][CallNext]_vars

\* cancellation : the same two calls, one reply frame on the wire ; only the
\* calls' own goroutines are assumed to be scheduled
CancelNext ==
    \/ listenCheck
    \/ listenRead(AckWire)
    \/ \E h \in Handlers : handleParse(h)
    \/ \E h \in Handlers : handleRLock(h)
    \/ \E h \in Handlers : handleDispatch(h)
    \/ \E h \in Handlers : handleCtxDone(h)
    \/ \E c \in Calls : CallGetID(c)
    \/ \E c \in Calls : CallSetTransaction(c)
    \/ \E c \in Calls : CallSend(c)
    \/ \E c \in Calls : CallCtxDone(c)
    \/ \E c \in Calls : CallStopTransaction(c)
    \/ \E c \in Calls : CallFreeID(c)
    \/ \E c \in Calls : Cancel(c)
    \/ \E c \in Calls, h \in Handlers : CallReceive(c, h)

FairCallSpec == Init /\ [][CancelNext]_vars /\ CallFair

\* discovery : one WhoIs call with every choice of limits, IAm frames on the wire
WhoIsNext ==
    \/ listenCheck
    \/ listenRead(IamWire)
    \/ \E h \in Handlers : handleParse(h)
    \/ \E h \in Handlers : handleRLock(h)
    \/ \E h \in Handlers : handleDispatch(h)
    \/ \E w \in WhoIsCalls : WhoIsStart(w, Limits)
    \/ \E w \in WhoIsCalls : WhoIsInstall(w)
    \/ \E w \in WhoIsCalls : WhoIsBroadcast(w)
    \/ \E w \in WhoIsCalls : WhoIsDeadline(w)
    \/ \E w \in WhoIsCalls, h \in Handlers : WhoIsCollect(w, h)

WhoIsSpec == Init /\ [][WhoIsNext]_vars

\* overlapping discovery : two WhoIs calls of two callers, IAm frames on the wire
OverlapNext ==
    \/ listenCheck
    \/ listenRead(IamFrames)
    \/ \E h \in Handlers : handleParse(h)
    \/ \E h \in Handlers : handleRLock(h)
    \/ \E h \in Handlers : handleDispatch(h)
    \/ \E w \in OverlapCalls : WhoIsStart(w, {NilBound})
    \/ \E w \in OverlapCalls : WhoIsInstall(w)
    \/ \E w \in OverlapCalls : WhoIsBroadcast(w)
    \/ \E w \in OverlapCalls : WhoIsDeadline(w)
    \/ \E w \in OverlapCalls, h \in Handlers : WhoIsCollect(w, h)

OverlapSpec == Init /\ [][OverlapNext]_vars

\* the pure functions of src/types.go applied to every input
TypesInit ==
    /\ ClientInit
    /\ objIn \in ObjectIDs /\ objEnc = None /\ objDec = None
    /\ udpIn \in UDPAddrs /\ addrMac = NoMac /\ udpOut = None

TypesNext == EncodeObjectID \/ DecodeObjectID \/ ToAddress \/ ToUDP

TypesSpec == TypesInit /\ [][TypesNext]_vars

(***************************************************************************)
(* Claims                                                                  *)
(***************************************************************************)
\* C1: once Close has stored the run flag it eventually returns, from every
\* state, also when the reader is blocked in the socket read and no datagram
\* arrives any more.
C1_CloseReturns == (closePc = "wait") ~> (closePc = "returned")

\* C2: the reader never waits for a handler: at the loop test it can always
\* go on, and in the socket read it can always take the next datagram,
\* whatever the handlers of earlier datagrams, the transactions and the
\* discovery sink are doing.
C2_ReaderNeverStalls ==
    /\ listenPc = "check" => ENABLED listenCheck
    /\ (listenPc = "read" /\ nRecv < MaxDgrams) => ENABLED listenRead(MixedWire)

\* a handler is blocked in the discovery sink, another one is blocked on a
\* transaction whose caller is not receiving, and the reader is in its next read
C2_Witness ==
    /\ listenPc = "read"
    /\ \E h \in DOMAIN handlers : handlers[h].pc = "sink"
    /\ \E h \in DOMAIN handlers :
          handlers[h].pc = "txsend" /\ calls[handlers[h].tx].pc # "wait"

\* C3: the step that brings ReadProperty / WriteProperty back to its caller
\* leaves the call's id free and unregistered, and no returned call still owns
\* a registered transaction.
C3_ReturnFreesId ==
    /\ [](\A c \in Calls : calls[c].pc = "returned" =>
              \A p \in transactions : p[2] # c)
    /\ [][\A c \in Calls :
            (calls[c].pc # "returned" /\ calls'[c].pc = "returned") =>
               (calls[c].id \notin inUse' /\ ~MapHas(transactions', calls[c].id))]_vars

\* one call returned a decoded value, the other returned cancelled
C3_Witness ==
    /\ calls[1].pc = "returned" /\ calls[1].res = "value"
    /\ calls[2].pc = "returned" /\ calls[2].res = "cancelled"
    /\ inUse = {} /\ transactions = {}

ReplyResults == {"value", "ok", "error", "invalid", "panic"}

\* C4: a call that waits with its context cancelled eventually returns, with
\* the context's error unless a reply was delivered to it, and its id is free
\* for the next allocation.
C4_CancelReturns ==
    \A c \in Calls :
       (calls[c].pc = "wait" /\ ctxDone[c]) ~>
          (/\ calls[c].pc = "returned"
           /\ calls[c].res \in {"cancelled"} \cup ReplyResults
           /\ calls[c].id \notin inUse)

\* call 1 returned cancelled and call 2 then got the id call 1 held
C4_Witness ==
    /\ calls[1].pc = "returned" /\ calls[1].res = "cancelled"
    /\ calls[2].pc = "wait" /\ calls[2].id = calls[1].id

\* the IAm frames of the window of call w that pass the filter
Accepted(w) == {r \in whois[w].rcvd : Keeps(r.inst, whois[w].low, whois[w].high)}
ReturnedOk(w) == whois[w].pc = "returned" /\ whois[w].err = "nil"
Included(w, r) == \E dev \in whois[w].result : dev.ID = r.inst

\* C5: the list WhoIs returns holds one device per distinct accepted IAm
\* record; K accepted copies of one IAm from one source give one device.
C5_Dedup ==
    \A w \in WhoIsCalls : ReturnedOk(w) =>
       /\ Cardinality(whois[w].result) = Cardinality({r.inst : r \in Accepted(w)})
       /\ (whois[w].nAcc >= 1 /\ Cardinality(Accepted(w)) = 1)
             => Cardinality(whois[w].result) = 1

\* two copies of one IAm from one source were accepted, one device is returned
C5_Witness ==
    \E w \in WhoIsCalls :
       /\ ReturnedOk(w)
       /\ whois[w].nAcc >= 2
       /\ Cardinality(Accepted(w)) = 1
       /\ Cardinality(whois[w].result) = 1

Outside(inst, lo, hi) == (lo # NilBound /\ inst < lo) \/ (hi # NilBound /\ inst > hi)

\* C6 as claimed: an IAm outside the supplied bounds is excluded iff a bound
\* was supplied (both, only low, only high), an IAm inside is included.
C6_RangeFilterAnyBound ==
    \A w \in WhoIsCalls : ReturnedOk(w) =>
       \A r \in whois[w].rcvd :
          IF Outside(r.inst, whois[w].low, whois[w].high)
          THEN ~Included(w, r) <=> (whois[w].low # NilBound \/ whois[w].high # NilBound)
          ELSE Included(w, r)

\* C6 amended: an IAm received during the window is excluded iff both low and
\* high were supplied and its instance is outside [low, high]; with one bound
\* or none nothing is excluded.
C6_RangeFilter ==
    \A w \in WhoIsCalls : ReturnedOk(w) =>
       \A r \in whois[w].rcvd :
          ~Included(w, r) <=>
             (/\ whois[w].low # NilBound /\ whois[w].high # NilBound
              /\ (r.inst < whois[w].low \/ r.inst > whois[w].high))

\* both bounds supplied: an IAm outside was dropped, one inside was kept
C6_Witness ==
    \E w \in WhoIsCalls :
       /\ ReturnedOk(w)
       /\ whois[w].low = 2 /\ whois[w].high = 2
       /\ \E r \in whois[w].rcvd : r.inst = 2 /\ Included(w, r)
       /\ \E r \in whois[w].rcvd : r.inst # 2 /\ ~Included(w, r)

\* C7: Encode fails exactly when type > 2^10-1 or instance > 2^22-1; an
\* accepted pair has the type in the high 10 bits, the instance in the low 22,
\* and ObjectIDFromUint32 gives the pair back.
C7_Packing ==
    /\ ~objEnc.none =>
          /\ objEnc.ok <=> (objIn.Type <= 1023 /\ ~Gt32(objIn.Instance, MaxInstance))
          /\ objEnc.ok => /\ objEnc.v.hi \div 64 = objIn.Type
                          /\ U32(objEnc.v.hi % 64, objEnc.v.lo) = objIn.Instance
    /\ ~objDec.none => objDec.v = objIn

\* C8: for an IPv4 address in its 4-byte or its 16-byte form, AddressFromUDP
\* gives the 7-byte MAC [4, ip, port_hi, port_lo] and UDPFromAddress gives the
\* address and port back.
C8_AddressRoundTrip ==
    /\ addrMac # NoMac =>
          addrMac = <<4>> \o To4(udpIn.IP) \o <<udpIn.Port \div 256, udpIn.Port % 256>>
    /\ ~udpOut.none => /\ IPEqual(udpOut.v.IP, udpIn.IP)
                       /\ udpOut.v.Port = udpIn.Port

\* C9: a datagram whose parse fails is never handed to the discovery sink
\* and never offered to a transaction sink.
C9_MalformedDropped ==
    \A h \in DOMAIN handlers :
       Decoded(h).err # "nil" => handlers[h].pc \notin {"sink", "txsend"}

\* C10: WhoIs returns no error, whatever frames arrive and whatever the
\* broadcast write does.
C10_WhoIsNeverErrors ==
    \A w \in WhoIsCalls : whois[w].pc = "returned" => whois[w].err = "nil"

\* C11 : once Close has been invoked, every ReadProperty / WriteProperty call that
\* is waiting for its reply eventually returns cancelled, also when its caller never
\* cancels and no reply arrives.
C11_CloseCancelsCalls ==
    \A c \in Calls :
        (closePc # "idle" /\ calls[c].pc = "wait")
            ~> (calls[c].pc = "returned" /\ calls[c].res = "cancelled")

\* C12 : an IAm accepted during discovery whose frame carries an NPDU source
\* specifier is recorded with that specifier as its address, not with the address
\* derived from the UDP source of the datagram.
C12_SourceSpecifierWins ==
    [][\A w \in WhoIsCalls : \A h \in DOMAIN handlers :
          LET d == handlers[h].d IN
          (/\ whois[w].pc = "collect" /\ whois'[w].pc = "collect"
           /\ handlers[h].pc = "sink" /\ handlers[h].f = w
           /\ handlers'[h].pc = "dispatch"
           /\ d.nsrc # 0
           /\ d.apdu.ServiceType = "IAm"
           /\ Keeps(d.apdu.Payload.inst, whois[w].low, whois[w].high))
          => <<d.apdu.Payload, SourceAddr(d.nsrc)>> \in whois'[w].set]_vars

\* C13 : the APDU a waiting call takes from its channel is classified by its
\* data-type : ReadProperty returns the peer's error on error, the value on a
\* complex-ack of read-property and invalid-reply otherwise ; WriteProperty returns
\* the peer's error on error, success on simple-ack and invalid-reply otherwise.
Classified(c, apdu) ==
    IF apdu.DataType = "Error" THEN "error"
    ELSE IF Kind(c) = "read"
         THEN IF apdu.DataType = "ComplexAck" /\ apdu.ServiceType = "ReadProperty"
              THEN "value" ELSE "invalid"
         ELSE IF apdu.DataType = "SimpleAck" THEN "ok" ELSE "invalid"

C14_DeliveryIsBounded ==
    \A h \in DOMAIN handlers :
        handlers[h].pc = "txsend"
            => (calls[handlers[h].tx].pc # "returned" \/ ctxDone[handlers[h].tx])

\* C15 : the sink slot is written only under the write lock, that is while no
\* handler holds the read lock : no install or uninstall happens while a handler
\* reads or invokes the sink.
C15_SlotWrittenUnderLock ==
    [][subF' # subF => rwReaders = {}]_vars

\* C16 : a WhoIs call that has returned at its deadline leaves no handler blocked
\* inside its sink with the read lock held, so a later WhoIs can take the write lock.
C16_NoHandlerLeftInSink ==
    \A h \in DOMAIN handlers :
        handlers[h].pc = "sink"
            => ~(whois[handlers[h].f].pc = "returned" /\ whois[handlers[h].f].err = "nil")

\* C17 : every id that has a registered transaction is an id the allocator has
\* handed out and not yet taken back : a call registers the id it has just
\* allocated and unregisters it before it frees it.
C17_RegisteredIdsAllocated ==
    \A p \in transactions :
        /\ p[1] \in inUse
        /\ calls[p[2]].id = p[1]
        /\ calls[p[2]].pc \in {"send", "wait", "stop"}

\* the second call runs under the invoke id the first call has given back
C17_Witness ==
    \E c, e \in Calls :
        /\ calls[c].pc = "returned"
        /\ calls[e].pc = "wait"
        /\ calls[e].id = calls[c].id
        /\ transactions = {<<calls[e].id, e>>}

\* C18 : a call takes only a reply sent by the device its request went to ; a reply
\* of another peer that carries the same invoke id is never delivered to it.
C18_ReplyFromAddressedPeer ==
    [][\A c \in Calls : \A h \in DOMAIN handlers :
          (/\ calls[c].pc = "wait" /\ calls'[c].pc # "wait"
           /\ handlers[h].pc = "txsend" /\ handlers[h].tx = c
           /\ handlers'[h].pc # "txsend")
          => handlers[h].d.src = Dest(c)]_vars

\* C19 : a reply that has arrived for a registered transaction whose caller waits
\* is eventually taken by that caller (or the caller stops waiting), also when its
\* handler passes through a discovery sink on the way.
ReplyInSinkFor(h, c) ==
    /\ h \in DOMAIN handlers
    /\ handlers[h].pc = "sink"
    /\ IsReply(Decoded(h).apdu)
    /\ GetTransaction(Decoded(h).apdu.InvokeID) = [ok |-> TRUE, tx |-> c]
    /\ calls[c].pc = "wait"

C19_RepliesNotStarved ==
    \A h \in Handlers : \A c \in Calls :
        ReplyInSinkFor(h, c) ~> (calls[c].pc # "wait")

\* C20 : two WhoIs calls that overlap do not interfere : the sink of each call
\* stays installed from its install to its return, whatever the other call does.
C20_SinkStaysInstalled ==
    \A w \in OverlapCalls :
        whois[w].pc \in {"broadcast", "collect"} => subF = w

====
